---- MODULE Spec2Model ----
(***************************************************************************)
(* Connect Four over WebSockets: the session coordinator of app.py.        *)
(*                                                                         *)
(* One handler coroutine runs per connection (asyncio, cooperative): an    *)
(* action of this module is the code one handler runs between two          *)
(* suspension points (an await that waits for the network).  The game      *)
(* rules live in the connect4 module, which app.py imports; it is          *)
(* modelled here from the documented Board Engine.                         *)
(*                                                                         *)
(* sent[c] is the sequence of events the handlers passed to                *)
(* websocket.send(c) or to websockets.broadcast for c.  open[c] is the     *)
(* transport state of c: a send on a connection that is not open raises    *)
(* ConnectionClosed in the sender, a broadcast never raises.               *)
(***************************************************************************)
EXTENDS Integers, Sequences, FiniteSets, TLC

\* ------------------------------------------------------------------ bounds
NConn == 3              \* connections that ever reach the server
MaxInputs == 6          \* Spec: what the clients do (first messages, move
                        \* requests, other messages, disconnections)
MaxColumn == 1          \* Spec: legal columns 0..MaxColumn are requested
MaxGameInputs == 5      \* SpecGame: first messages and rejected requests

\* ------------------------------------------------------ program constants
Columns == 7
Rows == 6
Connect == 4
PLAYER1 == "PLAYER1"
PLAYER2 == "PLAYER2"
Empty == "empty"

Conns == 1..NConn
NoSession == 0
\* Tokens are minted by secrets.token_urlsafe(12): fresh, never repeated.
\* Token 0 is a string (or another hashable JSON value) no session was ever
\* given.
TokenStrings == 0..(2 * NConn)
\* A join or watch value that is a JSON list or object: it cannot be a
\* dictionary key, the lookup raises TypeError.
Unhashable == -1
\* What a client puts in the join or watch field of its first message.
TokenInputs == TokenStrings \cup {Unhashable}
\* Columns a client asks for: legal ones, and one on each side of the board.
ColumnInputs == (0..MaxColumn) \cup {-1, Columns}

VARIABLES
    pc,         \* pc[c]: where handler c is suspended
    role,       \* role[c]: "none", "start", "join", "watch"
    open,       \* open[c]: the transport of c is open
    sess,       \* sess[c]: the session (game, connected) handler c refers to
    tokens,     \* tokens[c]: <<join_token, watch_token>> locals of start(c)
    JOIN,       \* JOIN: join token -> session
    WATCH,      \* WATCH: watch token -> session
    game,       \* game[s]: the Connect4 object of session s
    connected,  \* connected[s]: the set of connections of session s
                \* (a session is named by the connection that started it)
    pending,    \* pending[c]: moves of the replay copy not sent yet
    sent,       \* sent[c]: events passed to send/broadcast for c
    nextToken,  \* tokens minted so far + 1
    rejects,    \* rejected move requests so far
    inputs      \* client inputs counted against the bound of the specification

vars == <<pc, role, open, sess, tokens, JOIN, WATCH, game, connected,
          pending, sent, nextToken, rejects, inputs>>

\* ------------------------------------------------------------ Board Engine
EmptyGrid == [col \in 0..(Columns - 1) |-> [row \in 0..(Rows - 1) |-> Empty]]

NewGame ==
    [grid |-> EmptyGrid, moveLog |-> <<>>,
     lastPlayer |-> PLAYER2, lastPlayerWon |-> FALSE]

\* The lowest empty row of a column, Rows when the column is full.
RECURSIVE LowestEmpty(_, _, _)
LowestEmpty(grid, col, row) ==
    IF row >= Rows THEN Rows
    ELSE IF grid[col][row] = Empty THEN row
    ELSE LowestEmpty(grid, col, row + 1)

InBoard(col, row) == col \in 0..(Columns - 1) /\ row \in 0..(Rows - 1)

\* Number of consecutive cells of player from (col, row), exclusive, in
\* direction (dc, dr).
RECURSIVE Run(_, _, _, _, _, _)
Run(grid, player, col, row, dc, dr) ==
    IF InBoard(col + dc, row + dr) /\ grid[col + dc][row + dr] = player
    THEN 1 + Run(grid, player, col + dc, row + dr, dc, dr)
    ELSE 0

Directions == {<<1, 0>>, <<0, 1>>, <<1, 1>>, <<1, -1>>}

\* A run of Connect cells of player through (col, row) in one direction.
WinsAt(grid, player, col, row) ==
    \E d \in Directions :
        1 + Run(grid, player, col, row, d[1], d[2])
          + Run(grid, player, col, row, -d[1], -d[2]) >= Connect

\* Turn legality: the player who moved last may not move again; PLAYER1
\* moves first.
OutOfTurn(g, player) == player = g.lastPlayer

\* IllegalMove without the turn check.
IllegalMoveAnyTurn(g, player, col) ==
    \/ col \notin 0..(Columns - 1)
    \/ LowestEmpty(g.grid, col, 0) = Rows

IllegalMove(g, player, col) ==
    \/ col \notin 0..(Columns - 1)
    \/ LowestEmpty(g.grid, col, 0) = Rows
    \/ OutOfTurn(g, player)

\* Connect4.play(player, column) on a legal move: the game afterwards.
GamePlay(g, player, col) ==
    LET row == LowestEmpty(g.grid, col, 0)
        grid2 == [g.grid EXCEPT ![col][row] = player]
    IN  [grid |-> grid2,
         moveLog |-> Append(g.moveLog, <<player, col, row>>),
         lastPlayer |-> player,
         lastPlayerWon |-> WinsAt(grid2, player, col, row)]

\* ------------------------------------------------------------------ events
\* InitEvent with the two tokens exchanged.
InitEventSwapped(join, watch) ==
    [type |-> "init", join |-> watch, watch |-> join]

InitEvent(join, watch) == [type |-> "init", join |-> join, watch |-> watch]
PlayEvent(player, column, row) ==
    [type |-> "play", player |-> player, column |-> column, row |-> row]
WinEvent(player) == [type |-> "win", player |-> player]
ErrorEvent(message) == [type |-> "error", message |-> message]

\* str(err) of the error game.play raises.
IllegalMessage(g, player, col) ==
    IF OutOfTurn(g, player) THEN "out of turn"
    ELSE IF col \notin 0..(Columns - 1) THEN "bad column"
    ELSE "column full"

\* ----------------------------------------------------------------- helpers
\* websocket.send(event) on connection c.
Send(log, c, event) == [log EXCEPT ![c] = Append(@, event)]

\* Broadcast putting the event in front of what a connection was sent.
BroadcastPrepend(log, group, event) ==
    [c \in Conns |-> IF c \in group THEN <<event>> \o log[c] ELSE log[c]]

\* Broadcast leaving out the connections whose replay is still running.
BroadcastNotReplaying(log, group, event) ==
    [c \in Conns |->
        IF c \in group /\ pc[c] # "replay" THEN Append(log[c], event)
        ELSE log[c]]

\* Broadcast to the groups of all sessions.
BroadcastEverySession(log, group, event) ==
    [c \in Conns |->
        IF \E s \in DOMAIN connected : c \in connected[s]
        THEN Append(log[c], event)
        ELSE log[c]]

\* websockets.broadcast(group, event).
Broadcast(log, group, event) ==
    [c \in Conns |-> IF c \in group THEN Append(log[c], event) ELSE log[c]]

\* registry[token] = session
Registered(registry, token, s) ==
    [t \in (DOMAIN registry) \cup {token} |->
        IF t = token THEN s ELSE registry[t]]

\* Deleted leaving the entry in place.
DeletedNothing(registry, token) == registry

\* del registry[token]
Deleted(registry, token) ==
    [t \in (DOMAIN registry) \ {token} |-> registry[t]]

\* StartFinally with the watch token left registered.
StartFinallyJoinOnly(join, watch, join_token, watch_token) ==
    <<Deleted(join, join_token), watch>>

\* StartFinally with the join token left registered.
StartFinallyWatchOnly(join, watch, join_token, watch_token) ==
    <<join, Deleted(watch, watch_token)>>

\* The finally block of start: <<JOIN, WATCH>> afterwards.
StartFinally(join, watch, join_token, watch_token) ==
    <<Deleted(join, join_token), Deleted(watch, watch_token)>>

\* Attached with the registration forgotten.
AttachedNever(group, c) == group

\* connected.add(websocket)
Attached(group, c) == group \cup {c}

\* The finally block of join and of watch: connected.remove(websocket).
Detached(group, c) == group \ {c}

\* The player a connection in the move loop plays: start passes PLAYER1,
\* join passes PLAYER2.
PlayerOf(c) == IF role[c] = "start" THEN PLAYER1 ELSE PLAYER2

\* MoveEvents with a win event after every move.
MoveEventsAlwaysWin(g, player, column) ==
    LET row == g.moveLog[Len(g.moveLog)][3]
    IN  <<PlayEvent(player, column, row), WinEvent(g.lastPlayer)>>

\* MoveEvents with the column and the row of the play event exchanged.
MoveEventsSwapped(g, player, column) ==
    LET row == g.moveLog[Len(g.moveLog)][3]
    IN  <<PlayEvent(player, row, column)>>
        \o (IF g.lastPlayerWon THEN <<WinEvent(g.lastPlayer)>> ELSE <<>>)

\* The events play broadcasts for an accepted move, g the game after it.
MoveEvents(g, player, column) ==
    LET row == g.moveLog[Len(g.moveLog)][3]
    IN  <<PlayEvent(player, column, row)>>
        \o (IF g.lastPlayerWon THEN <<WinEvent(g.lastPlayer)>> ELSE <<>>)

RECURSIVE BroadcastAll(_, _, _)
BroadcastAll(log, group, events) ==
    IF events = <<>> THEN log
    ELSE BroadcastAll(Broadcast(log, group, Head(events)), group, Tail(events))

\* PlayError without the continue: the play event is broadcast all the same.
PlayErrorFallsThrough(log, group, c, g, player, column) ==
    Broadcast(Send(log, c, ErrorEvent(IllegalMessage(g, player, column))),
              group, PlayEvent(player, column, 0))

\* PlayError with the error event broadcast to the group.
PlayErrorBroadcast(log, group, c, g, player, column) ==
    Broadcast(log, group \cup {c}, ErrorEvent(IllegalMessage(g, player, column)))

\* What play sends when game.play raises: the error event, to c alone.
PlayError(log, group, c, g, player, column) ==
    Send(log, c, ErrorEvent(IllegalMessage(g, player, column)))

\* The event replay sends for one entry of game.moves.
ReplayEvent(move) == PlayEvent(move[1], move[2], move[3])

\* -------------------------------------------------------------------- Init
Init ==
    /\ pc = [c \in Conns |-> "new"]
    /\ role = [c \in Conns |-> "none"]
    /\ open = [c \in Conns |-> TRUE]
    /\ sess = [c \in Conns |-> NoSession]
    /\ tokens = [c \in Conns |-> <<0, 0>>]
    /\ JOIN = << >>
    /\ WATCH = << >>
    /\ game = << >>
    /\ connected = << >>
    /\ pending = [c \in Conns |-> <<>>]
    /\ sent = [c \in Conns |-> <<>>]
    /\ nextToken = 1
    /\ rejects = 0
    /\ inputs = 0

\* ----------------------------------------------------------------- actions
\* Connections are numbered in the order the server accepts them: c is the
\* connection whose handler is about to run for the first time.
Accepted(c) == pc[c] = "new" /\ \A d \in Conns : d < c => pc[d] # "new"

\* The handler of c ends (return or exception): the server closes c.
Ended(c) ==
    /\ pc' = [pc EXCEPT ![c] = "done"]
    /\ open' = [open EXCEPT ![c] = FALSE]

\* The peer or the network closes connection c.
Close(c) ==
    /\ open[c]
    /\ pc[c] \notin {"new", "done"}
    /\ open' = [open EXCEPT ![c] = FALSE]
    /\ UNCHANGED <<pc, role, sess, tokens, JOIN, WATCH, game, connected,
                   pending, sent, nextToken, rejects>>

\* handler: recv raises ConnectionClosed, c closed before a first message.
RecvClosed(c) ==
    /\ Accepted(c)
    /\ Ended(c)
    /\ UNCHANGED <<role, sess, tokens, JOIN, WATCH, game, connected,
                   pending, sent, nextToken, rejects>>

\* BadInit answering the bad message with an error event.
BadInitReplies(c) ==
    /\ Accepted(c)
    /\ sent' = Send(sent, c, ErrorEvent("Bad request."))
    /\ Ended(c)
    /\ UNCHANGED <<role, sess, tokens, JOIN, WATCH, game, connected,
                   pending, nextToken, rejects>>

\* handler: the first message is not JSON, or its type is not "init".
BadInit(c) ==
    /\ Accepted(c)
    /\ Ended(c)
    /\ UNCHANGED <<role, sess, tokens, JOIN, WATCH, game, connected,
                   pending, sent, nextToken, rejects>>

\* handler -> start: first message {type: init}.  Runs to the suspension in
\* play; when the init event cannot be sent the finally block runs at once.
\* alive: whether c is still open when the handler reads its first message.
Start(c, alive) ==
    LET join_token == nextToken
        watch_token == nextToken + 1
        join1 == Registered(JOIN, join_token, c)
        watch1 == Registered(WATCH, watch_token, c)
        after == StartFinally(join1, watch1, join_token, watch_token)
    IN  /\ Accepted(c)
        /\ role' = [role EXCEPT ![c] = "start"]
        /\ sess' = [sess EXCEPT ![c] = c]
        /\ tokens' = [tokens EXCEPT ![c] = <<join_token, watch_token>>]
        /\ nextToken' = nextToken + 2
        /\ game' = (c :> NewGame) @@ game
        /\ connected' = (c :> {c}) @@ connected
        /\ sent' = Send(sent, c, InitEvent(join_token, watch_token))
        /\ IF alive
           THEN /\ JOIN' = join1
                /\ WATCH' = watch1
                /\ pc' = [pc EXCEPT ![c] = "play"]
                /\ UNCHANGED open
           ELSE /\ JOIN' = after[1]
                /\ WATCH' = after[2]
                /\ Ended(c)
        /\ UNCHANGED <<pending, rejects>>

\* NotFound returning without the error event.
NotFoundSilent(c, kind) ==
    /\ role' = [role EXCEPT ![c] = kind]
    /\ Ended(c)
    /\ UNCHANGED <<sess, tokens, JOIN, WATCH, game, connected, pending, sent,
                   nextToken, rejects>>

\* join and watch on a KeyError: error(websocket, "Game not found."), return.
NotFound(c, kind) ==
    /\ role' = [role EXCEPT ![c] = kind]
    /\ sent' = Send(sent, c, ErrorEvent("Game not found."))
    /\ Ended(c)
    /\ UNCHANGED <<sess, tokens, JOIN, WATCH, game, connected, pending,
                   nextToken, rejects>>

\* join and watch when the lookup raises something else than KeyError (the
\* key is unhashable): nothing is sent, the exception ends the handler.
LookupRaises(c, kind) ==
    /\ role' = [role EXCEPT ![c] = kind]
    /\ Ended(c)
    /\ UNCHANGED <<sess, tokens, JOIN, WATCH, game, connected, pending, sent,
                   nextToken, rejects>>

\* join and watch after the lookup: attach, then replay up to its first
\* suspension.  next is where the handler goes after the replay.
Attach(c, kind, s, next, alive) ==
    LET copy == game[s].moveLog
    IN  /\ role' = [role EXCEPT ![c] = kind]
        /\ sess' = [sess EXCEPT ![c] = s]
        /\ IF copy = <<>>
           THEN /\ connected' = [connected EXCEPT ![s] = Attached(@, c)]
                /\ pc' = [pc EXCEPT ![c] = next]
                /\ open' = [open EXCEPT ![c] = alive]
                /\ UNCHANGED <<pending, sent>>
           ELSE /\ sent' = Send(sent, c, ReplayEvent(Head(copy)))
                /\ IF alive
                   THEN /\ connected' = [connected EXCEPT ![s] = Attached(@, c)]
                        /\ pending' = [pending EXCEPT ![c] = Tail(copy)]
                        /\ pc' = [pc EXCEPT ![c] =
                                    IF Tail(copy) = <<>> THEN next ELSE "replay"]
                        /\ UNCHANGED open
                   ELSE /\ connected' = [connected EXCEPT ![s] =
                                            Detached(Attached(@, c), c)]
                        /\ Ended(c)
                        /\ UNCHANGED pending
        /\ UNCHANGED <<tokens, JOIN, WATCH, game, nextToken, rejects>>

\* Join looking the token up in both registries.
JoinAnyRegistry(c, token, alive) ==
    /\ Accepted(c)
    /\ IF token = Unhashable
       THEN LookupRaises(c, "join")
       ELSE IF token \in DOMAIN JOIN
       THEN Attach(c, "join", JOIN[token], "play", alive)
       ELSE IF token \in DOMAIN WATCH
       THEN Attach(c, "join", WATCH[token], "play", alive)
       ELSE NotFound(c, "join")

\* handler -> join: first message {type: init, join: token}.
Join(c, token, alive) ==
    /\ Accepted(c)
    /\ IF token = Unhashable
       THEN LookupRaises(c, "join")
       ELSE IF token \in DOMAIN JOIN
       THEN Attach(c, "join", JOIN[token], "play", alive)
       ELSE NotFound(c, "join")

\* Watch entering the move loop after the replay, as join does.
WatchPlays(c, token, alive) ==
    /\ Accepted(c)
    /\ IF token = Unhashable
       THEN LookupRaises(c, "watch")
       ELSE IF token \in DOMAIN WATCH
       THEN Attach(c, "watch", WATCH[token], "play", alive)
       ELSE NotFound(c, "watch")

\* handler -> watch: first message {type: init, watch: token}.
Watch(c, token, alive) ==
    /\ Accepted(c)
    /\ IF token = Unhashable
       THEN LookupRaises(c, "watch")
       ELSE IF token \in DOMAIN WATCH
       THEN Attach(c, "watch", WATCH[token], "wait", alive)
       ELSE NotFound(c, "watch")

\* replay resumes after a send and sends the next move of its copy.
Replay(c) ==
    LET s == sess[c]
        next == IF role[c] = "join" THEN "play" ELSE "wait"
    IN  /\ pc[c] = "replay"
        /\ sent' = Send(sent, c, ReplayEvent(Head(pending[c])))
        /\ IF open[c]
           THEN /\ pending' = [pending EXCEPT ![c] = Tail(@)]
                /\ pc' = [pc EXCEPT ![c] =
                            IF Tail(pending[c]) = <<>> THEN next ELSE "replay"]
                /\ UNCHANGED <<open, connected>>
           ELSE /\ connected' = [connected EXCEPT ![s] = Detached(@, c)]
                /\ Ended(c)
                /\ UNCHANGED pending
        /\ UNCHANGED <<role, sess, tokens, JOIN, WATCH, game, nextToken, rejects>>

\* What runs when play returns or raises in handler c: the finally block of
\* start or of join, then the handler ends.
PlayExit(c) ==
    /\ Ended(c)
    /\ IF role[c] = "start"
       THEN LET after == StartFinally(JOIN, WATCH, tokens[c][1], tokens[c][2])
            IN  /\ JOIN' = after[1]
                /\ WATCH' = after[2]
                /\ UNCHANGED connected
       ELSE /\ connected' = [connected EXCEPT ![sess[c]] = Detached(@, c)]
            /\ UNCHANGED <<JOIN, WATCH>>

\* The accepted moves a specification explores: Spec explores every game,
\* SpecGame plays the games of Scripts move by move.
VerticalWin == <<0, 1, 0, 1, 0, 1, 0>>
HorizontalWin == <<0, 1, 0, 2, 0, 3, 6, 4>>
RisingWin == <<0, 1, 1, 2, 2, 3, 2, 3, 3, 6, 3>>
FallingWin == <<6, 5, 5, 4, 4, 3, 4, 3, 3, 0, 3>>
DrawnGame ==
    <<0, 0, 0, 0, 0, 0, 1, 1, 1, 1, 1, 1, 2, 2, 2, 2, 2, 2, 4, 3, 3,
      3, 3, 3, 3, 4, 4, 4, 4, 4, 5, 5, 5, 5, 5, 5, 6, 6, 6, 6, 6, 6>>
Scripts == {VerticalWin, HorizontalWin, RisingWin, FallingWin, DrawnGame}

GameColumnInputs == (0..(Columns - 1)) \cup {-1, Columns}

\* The game stays a prefix of one of the scripts.
Scripted(moveLog, column) ==
    \E script \in Scripts :
        /\ Len(moveLog) < Len(script)
        /\ script[Len(moveLog) + 1] = column
        /\ \A i \in 1..Len(moveLog) : moveLog[i][2] = script[i]

\* The drawn game is played on, past the length of the other scripts, in
\* the runs where no request was rejected.
Explored(moveLog, column, scripted) ==
    scripted =>
        /\ Scripted(moveLog, column)
        /\ Len(moveLog) < Len(RisingWin) \/ rejects = 0

\* Play leaving the move loop on a rejected request: the error is sent and
\* play returns.
PlayRejectFatal(c, column, scripted) ==
    LET s == sess[c]
        player == PlayerOf(c)
        g == game[s]
    IN  /\ pc[c] = "play"
        /\ IF IllegalMove(g, player, column)
           THEN /\ rejects' = rejects + 1
                /\ sent' = PlayError(sent, connected[s], c, g, player, column)
                /\ PlayExit(c)
                /\ UNCHANGED game
           ELSE /\ Explored(g.moveLog, column, scripted)
                /\ game' = [game EXCEPT ![s] = GamePlay(g, player, column)]
                /\ sent' = BroadcastAll(sent, connected[s],
                                        MoveEvents(game'[s], player, column))
                /\ UNCHANGED <<pc, open, JOIN, WATCH, connected, rejects>>
        /\ UNCHANGED <<role, sess, tokens, pending, nextToken>>

\* play: one message of the move loop, a move request for column.
\* The accepted moves a specification explores are those of Explored.
\* A message that arrived before c closed is still processed after it: an
\* accepted move is broadcast (a broadcast never raises); for a rejected
\* one the send of the error event raises ConnectionClosed, the exception
\* leaves play, the finally block of start or join runs and the handler
\* ends, all in this step.
Play(c, column, scripted) ==
    LET s == sess[c]
        player == PlayerOf(c)
        g == game[s]
    IN  /\ pc[c] = "play"
        /\ IF IllegalMove(g, player, column)
           THEN /\ rejects' = rejects + 1
                /\ sent' = PlayError(sent, connected[s], c, g, player, column)
                /\ IF open[c]
                   THEN UNCHANGED <<pc, open, JOIN, WATCH, connected>>
                   ELSE PlayExit(c)
                /\ UNCHANGED game
           ELSE /\ Explored(g.moveLog, column, scripted)
                /\ game' = [game EXCEPT ![s] = GamePlay(g, player, column)]
                /\ sent' = BroadcastAll(sent, connected[s],
                                        MoveEvents(game'[s], player, column))
                /\ UNCHANGED <<pc, open, JOIN, WATCH, connected, rejects>>
        /\ UNCHANGED <<role, sess, tokens, pending, nextToken>>

\* play: a message that is not JSON, has no column or is not of type play.
PlayBad(c) ==
    /\ pc[c] = "play"
    /\ PlayExit(c)
    /\ UNCHANGED <<role, sess, tokens, game, pending, sent, nextToken, rejects>>

\* play: the message iterator ends, the connection is closed.
PlayClosed(c) ==
    /\ pc[c] = "play"
    /\ ~open[c]
    /\ PlayExit(c)
    /\ UNCHANGED <<role, sess, tokens, game, pending, sent, nextToken, rejects>>

\* watch: wait_closed returns, the finally block runs.
WatchClosed(c) ==
    /\ pc[c] = "wait"
    /\ ~open[c]
    /\ connected' = [connected EXCEPT ![sess[c]] = Detached(@, c)]
    /\ Ended(c)
    /\ UNCHANGED <<role, sess, tokens, JOIN, WATCH, game, pending, sent,
                   nextToken, rejects>>

\* A client input counted against the bound of Spec.
Counted == inputs < MaxInputs /\ inputs' = inputs + 1

Next ==
    \/ Counted /\ \E c \in Conns : Close(c)
    \/ Counted /\ \E c \in Conns : RecvClosed(c)
    \/ Counted /\ \E c \in Conns : BadInit(c)
    \/ Counted /\ \E c \in Conns, alive \in BOOLEAN : Start(c, alive)
    \/ Counted /\ \E c \in Conns, token \in TokenInputs, alive \in BOOLEAN :
                     Join(c, token, alive)
    \/ Counted /\ \E c \in Conns, token \in TokenInputs, alive \in BOOLEAN :
                     Watch(c, token, alive)
    \/ UNCHANGED inputs /\ \E c \in Conns : Replay(c)
    \/ Counted /\ \E c \in Conns, column \in ColumnInputs :
                     Play(c, column, FALSE)
    \/ Counted /\ \E c \in Conns : PlayBad(c)
    \/ UNCHANGED inputs /\ \E c \in Conns : PlayClosed(c)
    \/ UNCHANGED inputs /\ \E c \in Conns : WatchClosed(c)

Spec == Init /\ [][Next]_vars

\* ---------------------------------------------------------------- SpecGame
\* Whole games: the games of Scripts, move by move, with every interleaving
\* of rejected requests; there is one session, PLAYER2 and the spectators
\* attach before the first move and nobody disconnects.  The moves of the
\* scripts are not counted against the bound, first messages and rejected
\* requests are.
CountedGame == inputs < MaxGameInputs /\ inputs' = inputs + 1

NextGame ==
    \/ CountedGame /\ Start(1, TRUE)
    \/ CountedGame /\ \E c \in Conns, token \in DOMAIN JOIN :
            /\ game[JOIN[token]].moveLog = <<>>
            /\ Join(c, token, TRUE)
    \/ CountedGame /\ \E c \in Conns, token \in DOMAIN WATCH :
            /\ game[WATCH[token]].moveLog = <<>>
            /\ Watch(c, token, TRUE)
    \/ \E c \in Conns, column \in GameColumnInputs :
            /\ Play(c, column, TRUE)
            /\ inputs' = inputs + (rejects' - rejects)
            /\ inputs' <= MaxGameInputs

SpecGame == Init /\ [][NextGame]_vars

\* ================================================================== claims
Range(seq) == {seq[i] : i \in 1..Len(seq)}
Last(seq) == seq[Len(seq)]
\* The events a step appends to the log of c.
Added(c) == SubSeq(sent'[c], Len(sent[c]) + 1, Len(sent'[c]))
OfType(seq, type) == {i \in 1..Len(seq) : seq[i].type = type}
IllegalMessages == {"out of turn", "bad column", "column full"}
\* The connections of session s by what they are doing.
Members(s, kind) == {c \in connected[s] : role[c] = kind /\ pc[c] # "done"}

\* C1: whenever the board accepts a move (the move log of a session grows by
\* an entry), every connection in the session's group at that moment is
\* sent exactly one play event, the first event it is sent in that step,
\* carrying the player, the column and the row of that entry; connections
\* outside the group are sent nothing.
C1_PlayBroadcastToGroup ==
    [][\A s \in DOMAIN game :
          Len(game'[s].moveLog) > Len(game[s].moveLog) =>
             LET m == Last(game'[s].moveLog)
             IN  /\ game'[s].moveLog = Append(game[s].moveLog, m)
                 /\ \A d \in Conns :
                       IF d \in connected[s]
                       THEN /\ Added(d) # <<>>
                            /\ sent'[d] = sent[d] \o Added(d)
                            /\ Added(d)[1] = PlayEvent(m[1], m[2], m[3])
                            /\ Cardinality(OfType(Added(d), "play")) = 1
                       ELSE sent'[d] = sent[d]]_vars

\* C1 witness: a move was accepted in a session with the mover, the
\* opponent and a spectator attached, and each was sent its play event.
C1_Witness ==
    \E s \in DOMAIN game :
        /\ Len(game[s].moveLog) >= 2
        /\ Members(s, "start") # {}
        /\ Members(s, "join") # {}
        /\ Members(s, "watch") # {}
        /\ \A d \in connected[s] :
              /\ pc[d] \in {"play", "wait"}
              /\ sent[d] # <<>>
              /\ LET m == Last(game[s].moveLog)
                 IN  Last(sent[d]) = PlayEvent(m[1], m[2], m[3])

\* C2: when the board rejects a move request, exactly one error event is
\* sent, to a connection in its move loop and to no other; no play or win
\* event is sent to anyone and the games (grid, moveLog) stay as they were;
\* the requester being open, it stays in its move loop and the connection
\* groups and both token registries stay as they were.  (On a closed
\* requester the send raises and its handler ends as on any close.)
C2_RejectedMoveOnlyErrors ==
    [][rejects' # rejects =>
          /\ \E c \in Conns, message \in IllegalMessages :
                /\ pc[c] = "play"
                /\ sent' = [sent EXCEPT ![c] = Append(@, ErrorEvent(message))]
                /\ open[c] => UNCHANGED <<pc, connected, JOIN, WATCH>>
          /\ UNCHANGED game]_vars

\* C2 witness: a request for a full column was rejected while the opponent
\* and a spectator were attached, and only the requester has an error event.
C2_Witness ==
    \E s \in DOMAIN game : \E c \in connected[s] :
        /\ rejects = 1
        /\ sent[c] # <<>>
        /\ Last(sent[c]) = ErrorEvent("column full")
        /\ Members(s, "start") # {}
        /\ Members(s, "join") # {}
        /\ Members(s, "watch") # {}
        /\ \A d \in Conns \ {c} : OfType(sent[d], "error") = {}

\* Successive entries of every move log alternate between the two players.
C3_Alternates ==
    \A s \in DOMAIN game :
        \A i \in 1..Len(game[s].moveLog) :
            /\ game[s].moveLog[i][1] \in {PLAYER1, PLAYER2}
            /\ i > 1 => game[s].moveLog[i][1] # game[s].moveLog[i - 1][1]

\* A step that sends an out-of-turn error sends nothing else and changes no
\* game.
C3_OutOfTurn ==
    \A c \in Conns :
        (/\ Len(sent'[c]) > Len(sent[c])
         /\ ErrorEvent("out of turn") \in Range(Added(c)))
        => /\ game' = game
           /\ sent' = [sent EXCEPT ![c] = Append(@, ErrorEvent("out of turn"))]

\* C3: successive entries of every move log alternate between PLAYER1 and
\* PLAYER2, whatever the order of the requests; a request that is out of
\* turn appends nothing to any move log and its error event goes to the
\* requesting connection alone.
C3_StrictAlternation == []C3_Alternates /\ [][C3_OutOfTurn]_vars

\* C3 witness: PLAYER1 asked for a second move in a row, got the error, and
\* the game went on with PLAYER2's move.
C3_Witness ==
    \E s \in DOMAIN game :
        /\ Len(game[s].moveLog) >= 2
        /\ ErrorEvent("out of turn") \in Range(sent[s])
        /\ \E i \in 1..(Len(sent[s]) - 1) :
              /\ sent[s][i] = ErrorEvent("out of turn")
              /\ sent[s][i + 1].type = "play"
              /\ sent[s][i + 1].player = PLAYER2

\* C4: a connection that joined or watches a session and is still open is
\* missing no move of the game: every entry of the move log was sent to it
\* as a play event, or is still waiting in the copy its replay is sending.
C4_NoMoveMissing ==
    \A c \in Conns :
        (/\ role[c] \in {"join", "watch"}
         /\ sess[c] # NoSession
         /\ pc[c] # "done"
         /\ open[c])
        => LET log == game[sess[c]].moveLog
           IN  /\ pc[c] # "replay" => pending[c] = <<>>
               /\ \A i \in 1..Len(log) :
                     \/ ReplayEvent(log[i]) \in Range(sent[c])
                     \/ log[i] \in Range(pending[c])

\* C4 witness: a connection attached after two moves, its replay has sent
\* the first, the third move was played meanwhile and broadcast to it, and
\* the second is still to be replayed.
C4_Witness ==
    \E c \in Conns :
        /\ pc[c] = "replay"
        /\ open[c]
        /\ LET log == game[sess[c]].moveLog
           IN  /\ Len(log) = 3
               /\ sent[c] = <<ReplayEvent(log[1]), ReplayEvent(log[3])>>
               /\ pending[c] = <<log[2]>>

\* Handler c takes its first step on a join or watch request whose token
\* (a string) is not registered.
C5_Request(c) ==
    /\ pc[c] = "new" /\ pc'[c] # "new"
    /\ \E alive \in BOOLEAN :
          \/ \E token \in TokenStrings \ DOMAIN JOIN : Join(c, token, alive)
          \/ \E token \in TokenStrings \ DOMAIN WATCH : Watch(c, token, alive)

\* What such a request does.
C5_Step ==
    \A c \in Conns :
        C5_Request(c) =>
            /\ sent[c] = <<>>
            /\ sent' = [sent EXCEPT ![c] = <<ErrorEvent("Game not found.")>>]
            /\ pc'[c] = "done"
            /\ ~open'[c]
            /\ sess'[c] = NoSession
            /\ UNCHANGED <<game, connected, JOIN, WATCH>>

\* What holds of that connection ever after: the error event is all it was
\* ever sent.  (A connection whose lookup raised was sent nothing.)
C5_After ==
    \A c \in Conns :
        (role[c] \in {"join", "watch"} /\ sess[c] = NoSession)
        => /\ pc[c] = "done"
           /\ sent[c] # <<>> => sent[c] = <<ErrorEvent("Game not found.")>>
           /\ \A s \in DOMAIN connected : c \notin connected[s]

\* C5: a join or watch request with a token string that is not registered sends
\* one error event to the requesting connection and ends its handler, the
\* connection is closed and in no group, and no game, group or registry
\* changes; that connection is never sent anything else.
C5_UnknownToken == []C5_After /\ [][C5_Step]_vars

\* C5 witness: a request with an unknown token was answered while a game
\* with both players and a move made was going on.
C5_Witness ==
    \E c \in Conns, s \in DOMAIN game :
        /\ role[c] \in {"join", "watch"}
        /\ sess[c] = NoSession
        /\ sent[c] = <<ErrorEvent("Game not found.")>>
        /\ Members(s, "start") # {}
        /\ Members(s, "join") # {}
        /\ Len(game[s].moveLog) >= 1

\* The tokens of an ended starting connection are registered nowhere.
C6_Removed ==
    \A c \in Conns :
        (role[c] = "start" /\ pc[c] = "done")
        => /\ \A t \in {tokens[c][1], tokens[c][2]} :
                 t \notin DOMAIN JOIN /\ t \notin DOMAIN WATCH
           /\ \A t \in DOMAIN JOIN : JOIN[t] # c
           /\ \A t \in DOMAIN WATCH : WATCH[t] # c

\* A request with such a token is answered NotFound and attaches nobody.
C6_Step ==
    \A c, d \in Conns :
        (/\ role[c] = "start"
         /\ pc[c] = "done"
         /\ \E t \in {tokens[c][1], tokens[c][2]}, alive \in BOOLEAN :
               Join(d, t, alive) \/ Watch(d, t, alive))
        => /\ sess'[d] = NoSession
           /\ Added(d) = <<ErrorEvent("Game not found.")>>
           /\ connected' = connected

\* C6: once the handler of a starting connection has ended, neither of its
\* session's tokens is registered in either registry and no registry entry
\* leads to its session, in every later state; a join or watch request with
\* one of them is answered NotFound.
C6_TokensRemoved == []C6_Removed /\ [][C6_Step]_vars

\* C6 witness: a starting connection is gone, PLAYER2 of its session is
\* still attached, and a later request was answered NotFound.
C6_Witness ==
    \E c, d, e \in Conns :
        /\ role[c] = "start"
        /\ pc[c] = "done"
        /\ d \in Members(c, "join")
        /\ c < e /\ d < e
        /\ role[e] \in {"join", "watch"}
        /\ sess[e] = NoSession
        /\ sent[e] = <<ErrorEvent("Game not found.")>>

\* C7: a step sends a connection a win event exactly when it is in the
\* group of a session whose move log grew in that step and whose game then
\* has lastPlayerWon; the connection is then sent the play event of that
\* move followed by one win event naming the player of that move.
C7_WinBroadcast ==
    [][\A d \in Conns :
          LET won == {s \in DOMAIN game :
                         /\ d \in connected[s]
                         /\ Len(game'[s].moveLog) > Len(game[s].moveLog)
                         /\ game'[s].lastPlayerWon}
          IN  IF won # {}
              THEN \A s \in won :
                      LET m == Last(game'[s].moveLog)
                      IN  Added(d) = <<PlayEvent(m[1], m[2], m[3]),
                                       WinEvent(m[1])>>
              ELSE OfType(Added(d), "win") = {}]_vars

\* C7 witness: a winning move was broadcast, play event then win event, to
\* the winner, the opponent and a spectator.
C7_Witness ==
    \E s \in DOMAIN game :
        /\ game[s].lastPlayerWon
        /\ Members(s, "start") # {}
        /\ Members(s, "join") # {}
        /\ Members(s, "watch") # {}
        /\ \A d \in connected[s] :
              /\ Len(sent[d]) >= 2
              /\ Last(sent[d]) = WinEvent(game[s].lastPlayer)
              /\ sent[d][Len(sent[d]) - 1].type = "play"
              /\ sent[d][Len(sent[d]) - 1].player = game[s].lastPlayer

\* The drawn game was played to its last move: the board is full and nobody
\* was sent a win event.
DrawnBoardReached ==
    \E s \in DOMAIN game :
        /\ Len(game[s].moveLog) = Columns * Rows
        /\ \A d \in Conns : OfType(sent[d], "win") = {}

\* C8: the length of a session's move log equals the number of play events
\* broadcast for it (its starting connection is in the group from the start
\* and is sent no replay, so these are the play events in its log), and
\* lastPlayer is the player of the last entry.
C8_MoveLogCountsPlays ==
    \A s \in DOMAIN game :
        /\ Cardinality(OfType(sent[s], "play")) = Len(game[s].moveLog)
        /\ Len(game[s].moveLog) > 0 =>
              game[s].lastPlayer = Last(game[s].moveLog)[1]

\* C8 witness: three moves were accepted and one request rejected.
C8_Witness ==
    \E s \in DOMAIN game :
        /\ Len(game[s].moveLog) = 3
        /\ OfType(sent[s], "error") # {}
        /\ Cardinality(OfType(sent[s], "play")) = 3

\* C9: a starting connection is sent one init event, its first event,
\* carrying the join and the watch token of its session; no other
\* connection is sent an init event or an event with a token field.
C9_InitToStarterOnly ==
    \A c \in Conns :
        IF role[c] = "start"
        THEN /\ OfType(sent[c], "init") = {1}
             /\ sent[c][1] = [type |-> "init", join |-> tokens[c][1],
                              watch |-> tokens[c][2]]
             /\ tokens[c][1] # tokens[c][2]
             /\ \A d \in Conns \ {c} :
                   role[d] = "start" =>
                      {tokens[c][1], tokens[c][2]}
                         \cap {tokens[d][1], tokens[d][2]} = {}
        ELSE \A i \in 1..Len(sent[c]) :
                /\ sent[c][i].type # "init"
                /\ DOMAIN sent[c][i] \cap {"join", "watch"} = {}

\* C9 witness: two sessions were started, and a connection that joined one
\* of them has been sent events.
C9_Witness ==
    \E c, d, e \in Conns :
        /\ c # d
        /\ role[c] = "start"
        /\ role[d] = "start"
        /\ role[e] = "join"
        /\ sess[e] # NoSession
        /\ sent[e] # <<>>

\* C10: a connection whose handler has ended is in no connection group.
C10_ClosedNeverMember ==
    \A c \in Conns :
        pc[c] = "done" => \A s \in DOMAIN connected : c \notin connected[s]

\* The request of c is rejected in this step.
C11_Rejected(c) == rejects' # rejects /\ Len(sent'[c]) > Len(sent[c])

\* c was sent the error event of a rejected request at some time.
C11_Errored(c) ==
    \E i \in 1..Len(sent[c]) :
        sent[c][i] \in {ErrorEvent(message) : message \in IllegalMessages}

\* A rejected request of an open connection leaves it in its move loop, in
\* the group of its session, with the session as it was.
C11_NotFatal ==
    \A c \in Conns :
        (C11_Rejected(c) /\ open[c])
        => /\ pc[c] = "play" /\ pc'[c] = "play"
           /\ open'[c]
           /\ sess'[c] = sess[c]
           /\ sess[c] \in DOMAIN game'
           /\ c \in connected'[sess[c]]
           /\ UNCHANGED <<game, connected, JOIN, WATCH>>

\* A legal request of a connection whose earlier request was rejected is
\* accepted and broadcast.
C11_LaterAccepted ==
    \A c \in Conns :
        (pc[c] = "play" /\ C11_Errored(c) /\ game' # game)
        => \A column \in ColumnInputs :
              (/\ ~IllegalMove(game[sess[c]], PlayerOf(c), column)
               /\ Play(c, column, FALSE))
              => LET s == sess[c]
                     m == Last(game'[s].moveLog)
                 IN  /\ game'[s].moveLog = Append(game[s].moveLog, m)
                     /\ m[1] = PlayerOf(c) /\ m[2] = column
                     /\ c \in connected[s]
                     /\ \A d \in connected[s] :
                           /\ Added(d) # <<>>
                           /\ Added(d)[1] = PlayEvent(m[1], m[2], m[3])

\* C11: an illegal move (bad column, full column, out of turn) is never
\* fatal: the requesting connection stays in its move loop and in its group,
\* its session is not destroyed, and a later legal move of the same
\* connection is accepted and broadcast.
C11_IllegalMoveNotFatal == [][C11_NotFatal /\ C11_LaterAccepted]_vars

\* C11 witness: a player was sent an error event for a rejected request and
\* later made a move that was broadcast to it and to its opponent, both
\* still in their move loops.
C11_Witness ==
    \E c, d \in Conns :
        /\ c # d
        /\ sess[c] # NoSession /\ sess[d] = sess[c]
        /\ pc[c] = "play" /\ pc[d] = "play"
        /\ \E i, j \in 1..Len(sent[c]) :
              /\ i < j
              /\ sent[c][i] \in {ErrorEvent(message) : message \in IllegalMessages}
              /\ sent[c][j].type = "play"
              /\ sent[c][j].player = PlayerOf(c)
              /\ sent[d] # <<>>
              /\ Last(sent[d]) = sent[c][j]

\* Handler c reads a bad first message: one that is not JSON or not of type
\* init, or one whose join or watch value cannot be a token (a list or an
\* object).
C12_Bad(c) ==
    \/ BadInit(c)
    \/ \E alive \in BOOLEAN :
          Join(c, Unhashable, alive) \/ Watch(c, Unhashable, alive)

\* What the step of a handler whose first message is bad does.
C12_Step ==
    \A c \in Conns :
        C12_Bad(c) =>
            /\ pc'[c] = "done"
            /\ ~open'[c]
            /\ BadInit(c) => role'[c] = "none"
            /\ sess'[c] = NoSession
            /\ UNCHANGED <<sent, game, connected, JOIN, WATCH, tokens>>

\* What holds of a connection that ended on its first message without
\* being sent anything.
C12_After ==
    \A c \in Conns :
        (/\ pc[c] = "done"
         /\ \/ role[c] = "none"
            \/ role[c] \in {"join", "watch"} /\ sent[c] = <<>>
                                             /\ sess[c] = NoSession)
        => /\ ~open[c]
           /\ sent[c] = <<>>
           /\ sess[c] = NoSession
           /\ c \notin DOMAIN game
           /\ \A s \in DOMAIN connected : c \notin connected[s]
           /\ \A t \in DOMAIN JOIN : JOIN[t] # c
           /\ \A t \in DOMAIN WATCH : WATCH[t] # c

\* C12: a connection whose first message is malformed or is not an init
\* message is closed without being sent any event, creates no session,
\* registers no token and is attached to no group, then and ever after.
C12_BadInitClosedSilently == []C12_After /\ [][C12_Step]_vars

\* C12 witness: while a session with a registered join token and a move made
\* was live, one connection was closed on a first message that was not an
\* init message and another on a join or watch value that was a list.
C12_Witness ==
    \E c, d \in Conns, s \in DOMAIN game :
        /\ role[c] = "none"
        /\ pc[c] = "done"
        /\ sent[c] = <<>>
        /\ role[d] \in {"join", "watch"}
        /\ pc[d] = "done"
        /\ sess[d] = NoSession
        /\ sent[d] = <<>>
        /\ s < c /\ s < d
        /\ pc[s] = "play"
        /\ tokens[s][1] \in DOMAIN JOIN
        /\ Len(game[s].moveLog) >= 1

\* The starting connections whose handler has not ended.
C13_Live == {c \in Conns : role[c] = "start" /\ pc[c] # "done"}

\* C13: while the handler of a starting connection runs, its join token and
\* its watch token are registered and lead to its session (one board, one
\* group), whoever has joined or watches; each registry holds exactly one
\* entry per live starting connection and no other entry.
C13_RegistriesPaired ==
    /\ \A c \in C13_Live :
          /\ c \in DOMAIN game /\ c \in DOMAIN connected
          /\ {t \in DOMAIN JOIN : JOIN[t] = c} = {tokens[c][1]}
          /\ {t \in DOMAIN WATCH : WATCH[t] = c} = {tokens[c][2]}
    /\ \A t \in DOMAIN JOIN : JOIN[t] \in C13_Live
    /\ \A t \in DOMAIN WATCH : WATCH[t] \in C13_Live
    /\ Cardinality(DOMAIN JOIN) = Cardinality(C13_Live)
    /\ Cardinality(DOMAIN WATCH) = Cardinality(C13_Live)

\* C13 witness: PLAYER2 has joined a session and a spectator watches it, a
\* move was made, and both tokens still lead to the session.
C13_Witness ==
    \E s \in C13_Live :
        /\ Members(s, "join") # {}
        /\ Members(s, "watch") # {}
        /\ Len(game[s].moveLog) >= 1
        /\ JOIN[tokens[s][1]] = s
        /\ WATCH[tokens[s][2]] = s

\* The play events of a log, in the order they were sent.
C14_Plays(log) == SelectSeq(log, LAMBDA event : event.type = "play")

\* The play events of a move log, in the order of the moves.
C14_Moves(moveLog) == [i \in 1..Len(moveLog) |-> ReplayEvent(moveLog[i])]

\* Every member of a group was sent the play events in move-log order: no
\* state has a move applied and not yet broadcast.
C14_InOrder ==
    \A s \in DOMAIN game :
        \A c \in connected[s] :
            C14_Plays(sent[c]) = C14_Moves(game[s].moveLog)

\* A step applies at most one move, to one game, and appends the same
\* events to the log of every member of its group.
C14_OneMove ==
    \A s \in DOMAIN game :
        game'[s] # game[s] =>
            /\ \A t \in DOMAIN game \ {s} : game'[t] = game[t]
            /\ Len(game'[s].moveLog) = Len(game[s].moveLog) + 1
            /\ SubSeq(game'[s].moveLog, 1, Len(game[s].moveLog))
                  = game[s].moveLog
            /\ \A c, d \in connected[s] : Added(c) = Added(d)

\* C14: moves of a session are serialized: a move is applied and its events
\* are broadcast in one step, one move at a time, and every connection
\* attached since before the first move is sent the play events in
\* move-log order, the same order for all of them.
C14_MovesSerialized == []C14_InOrder /\ [][C14_OneMove]_vars

\* C14 witness: both players and a spectator were sent the seven play
\* events of a game in which the players took turns, in move-log order.
C14_Witness ==
    \E s \in DOMAIN game :
        /\ Len(game[s].moveLog) = Len(VerticalWin)
        /\ Members(s, "start") # {}
        /\ Members(s, "join") # {}
        /\ Members(s, "watch") # {}
        /\ \A c \in connected[s] :
              /\ Len(C14_Plays(sent[c])) = Len(VerticalWin)
              /\ C14_Plays(sent[c]) = C14_Moves(game[s].moveLog)

\* How many times x occurs in seq.
C15_Count(seq, x) == Cardinality({k \in 1..Len(seq) : seq[k] = x})

\* C15: an open connection that joined or watches a session has every move
\* of the game exactly once: as a play event it was sent, by the replay or
\* by a live broadcast, or in what its replay has still to send, never in
\* both and never twice; it was sent no other play event, and a finished
\* replay has nothing left to send.  The order of the play events need not
\* be the order of the moves.
C15_EachMoveOnce ==
    \A c \in Conns :
        (/\ role[c] \in {"join", "watch"}
         /\ sess[c] # NoSession
         /\ pc[c] # "done"
         /\ open[c])
        => LET log == game[sess[c]].moveLog
           IN  /\ pc[c] # "replay" => pending[c] = <<>>
               /\ \A i \in 1..Len(log) :
                     C15_Count(sent[c], ReplayEvent(log[i]))
                        + C15_Count(pending[c], log[i]) = 1
               /\ Cardinality(OfType(sent[c], "play")) + Len(pending[c])
                     = Len(log)

\* C15 witness: the third move was played while the replay of the first two
\* was running; the replay has finished and the connection was sent the
\* three moves once each, the third before the second.
C15_Witness ==
    \E c \in Conns :
        /\ role[c] \in {"join", "watch"}
        /\ pc[c] \in {"play", "wait"}
        /\ open[c]
        /\ LET log == game[sess[c]].moveLog
           IN  /\ Len(log) = 3
               /\ sent[c] = <<ReplayEvent(log[1]), ReplayEvent(log[3]),
                              ReplayEvent(log[2])>>

\* A spectator is replaying, waiting for its close, or gone; it is never in
\* a move loop.
C16_Spectates ==
    \A c \in Conns :
        role[c] = "watch" =>
            /\ pc[c] \in {"replay", "wait", "done"}
            /\ pc[c] = "wait" => pending[c] = <<>>

\* A waiting spectator only leaves the wait when its connection is closed,
\* and is then detached; that step changes no game and sends nothing.
C16_WaitsForClose ==
    \A c \in Conns :
        (role[c] = "watch" /\ pc[c] = "wait" /\ pc'[c] # "wait")
        => /\ ~open[c]
           /\ pc'[c] = "done"
           /\ c \notin connected'[sess[c]]
           /\ UNCHANGED <<game, sent>>

\* Every move is the move of a player connection in its move loop.
C16_MovesByPlayers ==
    \A s \in DOMAIN game :
        game'[s] # game[s] =>
            \E p \in Conns :
                /\ role[p] \in {"start", "join"}
                /\ pc[p] = "play"
                /\ sess[p] = s
                /\ Last(game'[s].moveLog)[1] = PlayerOf(p)

\* Outside the broadcast of a player's move, a spectator is only sent the
\* next event of its own replay, and nobody else is sent anything then.
C16_NoBroadcast ==
    \A c \in Conns :
        (role[c] = "watch" /\ Len(sent'[c]) > Len(sent[c]) /\ game' = game)
        => /\ pc[c] = "replay"
           /\ Added(c) = <<ReplayEvent(Head(pending[c]))>>
           /\ \A d \in Conns \ {c} : sent'[d] = sent[d]

\* C16: a spectator never changes a game: it is never in a move loop, no
\* step of its handler calls play, changes a game or broadcasts; after its
\* replay it waits for its own close and is then detached from the group.
C16_SpectatorReadOnly ==
    []C16_Spectates
    /\ [][C16_WaitsForClose /\ C16_MovesByPlayers /\ C16_NoBroadcast]_vars

\* C16 witness: a spectator was sent a move, its connection closed and it
\* was detached; the players went on and made a move it was not sent.
C16_Witness ==
    \E c \in Conns :
        /\ role[c] = "watch"
        /\ pc[c] = "done"
        /\ sess[c] # NoSession
        /\ c \notin connected[sess[c]]
        /\ OfType(sent[c], "play") # {}
        /\ Len(game[sess[c]].moveLog) > Cardinality(OfType(sent[c], "play"))
        /\ Members(sess[c], "join") # {}

\* No token is registered in both registries; the join token of a session
\* is not a watch token and its watch token is not a join token.
C17_Disjoint ==
    /\ DOMAIN JOIN \cap DOMAIN WATCH = {}
    /\ \A c \in Conns :
          role[c] = "start" =>
             /\ tokens[c][1] # tokens[c][2]
             /\ tokens[c][1] \notin DOMAIN WATCH
             /\ tokens[c][2] \notin DOMAIN JOIN

\* Handler d answers NotFound in this step.
C17_NotFound(d, kind) ==
    /\ role'[d] = kind
    /\ sess'[d] = NoSession
    /\ pc'[d] = "done"
    /\ Added(d) = <<ErrorEvent("Game not found.")>>
    /\ UNCHANGED <<game, connected, JOIN, WATCH>>

\* A live session's watch token in a join request, or its join token in a
\* watch request, is answered NotFound.
C17_Crossed ==
    \A c \in C13_Live, d \in Conns :
        (pc[d] = "new" /\ pc'[d] # "new") =>
            /\ (\E alive \in BOOLEAN : Join(d, tokens[c][2], alive))
                  => C17_NotFound(d, "join")
            /\ (\E alive \in BOOLEAN : Watch(d, tokens[c][1], alive))
                  => C17_NotFound(d, "watch")

\* C17: the join and the watch registries are independent namespaces: the
\* watch token of a live session presented in a join request resolves to
\* NotFound, and its join token presented in a watch request resolves to
\* NotFound; the requesting connection gets no player seat and no place in
\* the group.
C17_NamespacesIndependent == []C17_Disjoint /\ [][C17_Crossed]_vars

\* C17 witness: the only session there ever was is live with both tokens
\* registered and a spectator attached with its watch token; a later join
\* request was answered NotFound and its connection is in no group.
C17_Witness ==
    \E s \in C13_Live, e, d \in Conns :
        /\ DOMAIN game = {s}
        /\ tokens[s][1] \in DOMAIN JOIN
        /\ tokens[s][2] \in DOMAIN WATCH
        /\ e \in Members(s, "watch")
        /\ e < d
        /\ role[d] = "join"
        /\ sess[d] = NoSession
        /\ sent[d] = <<ErrorEvent("Game not found.")>>
        /\ d \notin connected[s]

\* The open connections in the move loop of session s as player.
C18_Seats(s, player) ==
    {c \in Conns : /\ sess[c] = s
                   /\ pc[c] = "play"
                   /\ open[c]
                   /\ PlayerOf(c) = player}

\* C18: for every session, at most one open connection is in the move loop
\* as PLAYER1 and at most one as PLAYER2.
C18_TwoPlayers ==
    \A s \in DOMAIN game :
        /\ Cardinality(C18_Seats(s, PLAYER1)) <= 1
        /\ Cardinality(C18_Seats(s, PLAYER2)) <= 1

\* The half of C18 about PLAYER1: only the starting connection of a session
\* plays as PLAYER1.
C18_OnePlayer1 ==
    \A s \in DOMAIN game : C18_Seats(s, PLAYER1) \subseteq {s}

\* A connection is in the group of at most one session, the session its
\* handler refers to.
C19_OneGroup ==
    \A c \in Conns :
        \A s \in DOMAIN connected :
            c \in connected[s] => sess[c] = s

\* A move request, accepted or rejected, changes the game of one session at
\* most and sends events only to connections of that session.
C19_OneSession ==
    (rejects' # rejects \/ \E s \in DOMAIN game : game'[s] # game[s])
    => /\ DOMAIN game' = DOMAIN game
       /\ \E s \in DOMAIN game :
             /\ \A t \in DOMAIN game \ {s} : game'[t] = game[t]
             /\ \A d \in Conns :
                   sent'[d] # sent[d] => (d \in connected[s] /\ sess[d] = s)
             /\ \A t \in DOMAIN game \ {s} :
                   \A d \in connected[t] : sent'[d] = sent[d]

\* C19: sessions are isolated: a move request on one session changes only
\* that session's game, its play, win and error events are sent only to
\* connections of that session, and no connection is in the groups of two
\* sessions.
C19_SessionsIsolated == []C19_OneGroup /\ [][C19_OneSession]_vars

\* C19 witness: two sessions are live, a move was made in each and a
\* request was rejected; PLAYER2 of one of them was sent its session's move
\* and each starting connection only the moves of its own game.
C19_Witness ==
    \E s, t \in C13_Live, e \in Conns :
        /\ s # t
        /\ rejects >= 1
        /\ Len(game[s].moveLog) = 1
        /\ Len(game[t].moveLog) = 1
        /\ game[s].moveLog # game[t].moveLog
        /\ e \in Members(s, "join")
        /\ sent[e] = <<ReplayEvent(game[s].moveLog[1])>>
        /\ OfType(sent[s], "play") # {}
        /\ \A i \in OfType(sent[s], "play") :
              sent[s][i] = ReplayEvent(game[s].moveLog[1])
        /\ \A i \in OfType(sent[t], "play") :
              sent[t][i] = ReplayEvent(game[t].moveLog[1])

\* The sessions whose starting connection's handler has ended.
C20_Orphaned == {s \in DOMAIN game : role[s] = "start" /\ pc[s] = "done"}

\* The group of such a session gains no member, and a move still accepted
\* on its board is broadcast to those who are in the group.
C20_Step ==
    \A s \in C20_Orphaned :
        /\ connected'[s] \subseteq connected[s]
        /\ \A d \in Conns : sess[d] # s => sess'[d] # s
        /\ game'[s] # game[s] =>
              LET m == Last(game'[s].moveLog)
              IN  \A d \in connected[s] :
                     /\ Added(d) # <<>>
                     /\ Added(d)[1] = PlayEvent(m[1], m[2], m[3])

\* C20: once the handler of a session's starting connection has ended, no
\* connection attaches to that session any more (its group only shrinks),
\* and the connections still attached are sent the events of every move
\* still accepted on its board.
C20_NoAttachAfterStarter == [][C20_Step]_vars

\* C20 witness: the starting connection is gone, PLAYER2 is still in its
\* move loop and was sent its own move, the last of the game, and a later
\* join or watch request was answered NotFound.
C20_Witness ==
    \E s \in C20_Orphaned, d, e \in Conns :
        /\ d \in Members(s, "join")
        /\ pc[d] = "play" /\ open[d]
        /\ Len(game[s].moveLog) >= 2
        /\ Last(game[s].moveLog)[1] = PLAYER2
        /\ Last(sent[d]) = ReplayEvent(Last(game[s].moveLog))
        /\ d < e
        /\ role[e] \in {"join", "watch"}
        /\ sess[e] = NoSession
        /\ sent[e] = <<ErrorEvent("Game not found.")>>

====
